---- MODULE Spec2Model ----
(***************************************************************************)
(* Model of create_zettels.py: a three-pass pipeline that splits a text    *)
(* document into Zettel blocks, sanitizes their titles, rewrites wikilinks *)
(* and writes one formatted Markdown file per Zettel.                      *)
(*                                                                         *)
(* A Python str is modelled as a sequence of one-character strings, so the *)
(* string operations of the source (strip, split, replace, re.sub) are     *)
(* computed character by character as the interpreter computes them.       *)
(***************************************************************************)
EXTENDS Integers, Sequences, FiniteSets, TLC

VARIABLES pc, file_exists, input_content, raw_zettel_blocks, block_idx,
          zettels_data, title_map, processed_zettels, write_idx, files,
          dir_created, out, exit_status, arg, res, res2

vars == <<pc, file_exists, input_content, raw_zettel_blocks, block_idx,
          zettels_data, title_map, processed_zettels, write_idx, files,
          dir_created, out, exit_status, arg, res, res2>>

pipeVars == <<file_exists, input_content, raw_zettel_blocks, block_idx,
              zettels_data, title_map, processed_zettels, write_idx, files,
              dir_created, out, exit_status>>

-----------------------------------------------------------------------------
(* Bounds of the model.                                                    *)

\* longest title handed to sanitize_title on its own
MaxTitleLen == 4
\* longest tail of a body line handed to the escaping step on its own
MaxLineLen == 4
\* most '**Title:**' segments in an enumerated input document
MaxBlocks == 2

-----------------------------------------------------------------------------
(* Python string primitives.                                               *)

\* the grave accent character, which a TLA+ string literal cannot hold
Backtick == "backtick"

\* the characters str.strip() and the regex class \s treat as whitespace
Whitespace == {" ", "\t", "\n"}

\* the strip set of sanitize_title: space, single quote, backtick, double quote
QuoteChars == {" ", "'", Backtick, "\""}

\* the character class deleted by the first re.sub of sanitize_title
IllegalChars == {"<", ">", "\"", "\\", "|", "?", "*"}

TitleMarker == <<"*", "*", "T", "i", "t", "l", "e", ":", "*", "*">>

ContentMarker == <<"*", "*", "C", "o", "n", "t", "e", "n", "t", ":", "*", "*">>

Separator == <<"-", "-", "-">>

Fence == <<Backtick, Backtick, Backtick>>

TagsPrefix == <<"t", "a", "g", "s", ":", ":">>

NL == <<"\n">>

\* s[p..] starts with pat
MatchAt(s, p, pat) ==
    /\ p + Len(pat) - 1 <= Len(s)
    /\ \A i \in 1..Len(pat) : s[p + i - 1] = pat[i]

\* str.startswith
StartsWith(s, pat) == MatchAt(s, 1, pat)

\* index of the first occurrence of pat in s at or after from, 0 when none
RECURSIVE Find(_, _, _)
Find(s, pat, from) ==
    IF from + Len(pat) - 1 > Len(s) THEN 0
    ELSE IF MatchAt(s, from, pat) THEN from
    ELSE Find(s, pat, from + 1)

\* substring test
Contains(s, pat) == Find(s, pat, 1) # 0

\* str.lstrip(chars)
RECURSIVE LStrip(_, _)
LStrip(s, chars) ==
    IF s # <<>> /\ Head(s) \in chars THEN LStrip(Tail(s), chars) ELSE s

\* str.rstrip(chars)
RECURSIVE RStrip(_, _)
RStrip(s, chars) ==
    IF s # <<>> /\ s[Len(s)] \in chars
    THEN RStrip(SubSeq(s, 1, Len(s) - 1), chars) ELSE s

\* str.strip(chars)
StripChars(s, chars) == RStrip(LStrip(s, chars), chars)

\* str.strip()
Strip(s) == StripChars(s, Whitespace)

\* str.replace(old, new) for a non-empty old: leftmost, non-overlapping
RECURSIVE Replace(_, _, _)
Replace(s, old, new) ==
    LET p == Find(s, old, 1) IN
    IF p = 0 THEN s
    ELSE SubSeq(s, 1, p - 1) \o new
         \o Replace(SubSeq(s, p + Len(old), Len(s)), old, new)

\* str.split(sep): the list of pieces between the non-overlapping separators
RECURSIVE Split(_, _)
Split(s, sep) ==
    LET p == Find(s, sep, 1) IN
    IF p = 0 THEN <<s>>
    ELSE <<SubSeq(s, 1, p - 1)>> \o Split(SubSeq(s, p + Len(sep), Len(s)), sep)

\* str.split(sep, 1): at most one split, at the first separator
SplitOnce(s, sep) ==
    LET p == Find(s, sep, 1) IN
    IF p = 0 THEN <<s>>
    ELSE <<SubSeq(s, 1, p - 1), SubSeq(s, p + Len(sep), Len(s))>>

\* sep.join(parts)
RECURSIVE Join(_, _)
Join(parts, sep) ==
    IF parts = <<>> THEN <<>>
    ELSE IF Len(parts) = 1 THEN parts[1]
    ELSE parts[1] \o sep \o Join(Tail(parts), sep)

\* re.sub of a character class by the empty string: delete every such character
RECURSIVE RemoveChars(_, _)
RemoveChars(s, chars) ==
    IF s = <<>> THEN <<>>
    ELSE IF Head(s) \in chars THEN RemoveChars(Tail(s), chars)
    ELSE <<Head(s)>> \o RemoveChars(Tail(s), chars)

\* re.sub of \s+ by one space: every maximal whitespace run becomes one space
RECURSIVE CollapseWhitespace(_)
CollapseWhitespace(s) ==
    IF s = <<>> THEN <<>>
    ELSE IF Head(s) \in Whitespace
         THEN <<" ">> \o CollapseWhitespace(LStrip(s, Whitespace))
         ELSE <<Head(s)>> \o CollapseWhitespace(Tail(s))

-----------------------------------------------------------------------------
(* sanitize_title                                                          *)

\* a slip that forgets the final .strip() after collapsing whitespace
sanitize_title_NoFinalStrip(title) ==
    LET s1 == StripChars(title, QuoteChars)
        s2 == Replace(s1, <<":">>, <<" ", "-">>)
        s3 == Replace(s2, <<"/">>, <<" ", "o", "r", " ">>)
        s4 == RemoveChars(s3, IllegalChars)
    IN  CollapseWhitespace(s4)

sanitize_title(title) ==
    LET s1 == StripChars(title, QuoteChars)
        s2 == Replace(s1, <<":">>, <<" ", "-">>)
        s3 == Replace(s2, <<"/">>, <<" ", "o", "r", " ">>)
        s4 == RemoveChars(s3, IllegalChars)
    IN  Strip(CollapseWhitespace(s4))

-----------------------------------------------------------------------------
(* clean_content_block and the per-record steps of the three passes.       *)

\* a slip that keeps the text after the separator
clean_content_block_NoSeparatorCut(raw_content) ==
    LET lines == Split(raw_content, NL)
        clean_lines == SelectSeq(lines, LAMBDA line : ~StartsWith(Strip(line), Fence))
    IN  Strip(Join(clean_lines, NL))

clean_content_block(raw_content) ==
    LET content_before_separator == Split(raw_content, Separator)[1]
        lines == Split(content_before_separator, NL)
        clean_lines == SelectSeq(lines, LAMBDA line : ~StartsWith(Strip(line), Fence))
    IN  Strip(Join(clean_lines, NL))

\* title_map[original] = sanitized on an insertion-ordered dict: a new key
\* goes to the end, an existing key keeps its place
DictSet(d, original, sanitized) ==
    IF \E k \in 1..Len(d) : d[k].original = original
    THEN [k \in 1..Len(d) |->
            IF d[k].original = original
            THEN [original |-> original, sanitized |-> sanitized]
            ELSE d[k]]
    ELSE Append(d, [original |-> original, sanitized |-> sanitized])

\* the f-string "[[{title}]]"
Wikilink(title) == <<"[", "[">> \o title \o <<"]", "]">>

\* a slip that leaves the inner loop after the first entry of the map
RewriteLinks_FirstEntryOnly(content, d) ==
    IF d = <<>> THEN content
    ELSE Replace(content, Wikilink(d[1].original), Wikilink(d[1].sanitized))

\* the inner loop of PASS 2: one str.replace per entry of the title map,
\* in the map's iteration order
RECURSIVE RewriteLinks(_, _)
RewriteLinks(content, d) ==
    IF d = <<>> THEN content
    ELSE RewriteLinks(Replace(content, Wikilink(d[1].original),
                              Wikilink(d[1].sanitized)),
                      Tail(d))

\* end of the run of non-whitespace characters of s that starts at p
RECURSIVE TokenEnd(_, _)
TokenEnd(s, p) ==
    IF p < Len(s) /\ s[p + 1] \notin Whitespace THEN TokenEnd(s, p + 1) ELSE p

\* re.sub(r'(#(\S+))', r'\\#\2', line): leftmost non-overlapping matches,
\* each a '#' and the greedy run of non-whitespace after it
RECURSIVE EscapeHashes(_)
EscapeHashes(s) ==
    IF s = <<>> THEN <<>>
    ELSE IF Head(s) = "#" /\ Len(s) >= 2 /\ s[2] \notin Whitespace
         THEN LET q == TokenEnd(s, 2) IN
              <<"\\", "#">> \o SubSeq(s, 2, q)
                  \o EscapeHashes(SubSeq(s, q + 1, Len(s)))
         ELSE <<Head(s)>> \o EscapeHashes(Tail(s))

\* the body of the per-line loop of PASS 3
escape_line(line) ==
    IF StartsWith(Strip(line), TagsPrefix) THEN line ELSE EscapeHashes(line)

Indent(ln) == <<" ", " ">> \o ln

\* final_logseq_content of PASS 3 for one rewritten body
FormatContent(content) ==
    LET lines == Split(content, NL)
        escaped_lines == [k \in 1..Len(lines) |-> escape_line(lines[k])]
        final_content_str == Join(escaped_lines, NL)
        final_lines == Split(final_content_str, NL)
        indented_content == Join([k \in 1..Len(final_lines) |-> Indent(final_lines[k])], NL)
    IN  <<"-", " ", "\n">> \o indented_content

MdSuffix == <<".", "m", "d">>

\* a slip that opens the file in exclusive-creation style: an existing file
\* of that name keeps its content
WriteFile_KeepsExisting(fs, name, content) ==
    IF \E f \in fs : f.name = name THEN fs
    ELSE fs \cup {[name |-> name, content |-> content]}

\* open(filepath, 'w') and write: the file of that name is created or
\* truncated and holds exactly the new content
WriteFile(fs, name, content) ==
    {f \in fs : f.name # name} \cup {[name |-> name, content |-> content]}

Message(kind, text) == [msg |-> kind, text |-> text]

-----------------------------------------------------------------------------
(* main and parse_and_create_zettels, one action per step of the script.   *)

\* main: the input file is opened and read
ReadInput ==
    /\ pc = "main"
    /\ file_exists
    /\ pc' = "parse"
    /\ UNCHANGED <<file_exists, input_content, raw_zettel_blocks, block_idx,
                   zettels_data, title_map, processed_zettels, write_idx,
                   files, dir_created, out, exit_status, arg, res, res2>>

\* main: open raises FileNotFoundError, reported and turned into exit 1
InputNotFound ==
    /\ pc = "main"
    /\ ~file_exists
    /\ out' = Append(out, Message("error_not_found", <<>>))
    /\ exit_status' = 1
    /\ pc' = "exited"
    /\ UNCHANGED <<file_exists, input_content, raw_zettel_blocks, block_idx,
                   zettels_data, title_map, processed_zettels, write_idx,
                   files, dir_created, arg, res, res2>>

\* input_content.split('**Title:**')[1:]
TitleSegments(content) == Tail(Split(content, TitleMarker))

\* a slip that reports the missing title marker but does not exit
NoZettelsFound_NoExit ==
    /\ pc = "parse"
    /\ TitleSegments(input_content) = <<>>
    /\ dir_created' = TRUE
    /\ raw_zettel_blocks' = <<>>
    /\ out' = out \o <<Message("checking", <<>>), Message("error_no_zettels", <<>>),
                       Message("found", <<>>)>>
    /\ block_idx' = 1
    /\ zettels_data' = <<>>
    /\ title_map' = <<>>
    /\ pc' = "pass1"
    /\ UNCHANGED <<file_exists, input_content, processed_zettels, write_idx,
                   files, exit_status, arg, res, res2>>

\* makedirs, the split on the title marker, and the exit when it is empty
NoZettelsFound ==
    /\ pc = "parse"
    /\ TitleSegments(input_content) = <<>>
    /\ dir_created' = TRUE
    /\ raw_zettel_blocks' = <<>>
    /\ out' = out \o <<Message("checking", <<>>), Message("error_no_zettels", <<>>)>>
    /\ exit_status' = 1
    /\ pc' = "exited"
    /\ UNCHANGED <<file_exists, input_content, block_idx, zettels_data,
                   title_map, processed_zettels, write_idx, files,
                   arg, res, res2>>

\* makedirs, the split on the title marker, and the entry into PASS 1
ZettelsFound ==
    /\ pc = "parse"
    /\ TitleSegments(input_content) # <<>>
    /\ dir_created' = TRUE
    /\ raw_zettel_blocks' = TitleSegments(input_content)
    /\ out' = out \o <<Message("checking", <<>>), Message("found", <<>>)>>
    /\ block_idx' = 1
    /\ zettels_data' = <<>>
    /\ title_map' = <<>>
    /\ pc' = "pass1"
    /\ UNCHANGED <<file_exists, input_content, processed_zettels, write_idx,
                   files, exit_status, arg, res, res2>>

\* a slip that puts the try around the loop instead of inside it: the first
\* block without content marker ends PASS 1
SkipMalformedBlock_EndsLoop ==
    /\ pc = "pass1"
    /\ block_idx <= Len(raw_zettel_blocks)
    /\ Len(SplitOnce(raw_zettel_blocks[block_idx], ContentMarker)) # 2
    /\ out' = Append(out, Message("warning_malformed", <<>>))
    /\ block_idx' = Len(raw_zettel_blocks) + 1
    /\ UNCHANGED <<pc, file_exists, input_content, raw_zettel_blocks,
                   zettels_data, title_map, processed_zettels, write_idx,
                   files, dir_created, exit_status, arg, res, res2>>

\* PASS 1, a block without the content marker: the unpacking of the split
\* raises ValueError and the handler prints the warning
SkipMalformedBlock ==
    /\ pc = "pass1"
    /\ block_idx <= Len(raw_zettel_blocks)
    /\ Len(SplitOnce(raw_zettel_blocks[block_idx], ContentMarker)) # 2
    /\ out' = Append(out, Message("warning_malformed", <<>>))
    /\ block_idx' = block_idx + 1
    /\ UNCHANGED <<pc, file_exists, input_content, raw_zettel_blocks,
                   zettels_data, title_map, processed_zettels, write_idx,
                   files, dir_created, exit_status, arg, res, res2>>

\* PASS 1, a block whose trimmed title is empty: continue
SkipEmptyTitle ==
    /\ pc = "pass1"
    /\ block_idx <= Len(raw_zettel_blocks)
    /\ LET parts == SplitOnce(raw_zettel_blocks[block_idx], ContentMarker) IN
       /\ Len(parts) = 2
       /\ Strip(parts[1]) = <<>>
    /\ block_idx' = block_idx + 1
    /\ UNCHANGED <<pc, file_exists, input_content, raw_zettel_blocks,
                   zettels_data, title_map, processed_zettels, write_idx,
                   files, dir_created, out, exit_status, arg, res, res2>>

\* PASS 1, a well-formed block: the record and its title map entry
ExtractZettel ==
    /\ pc = "pass1"
    /\ block_idx <= Len(raw_zettel_blocks)
    /\ LET parts == SplitOnce(raw_zettel_blocks[block_idx], ContentMarker) IN
       /\ Len(parts) = 2
       /\ Strip(parts[1]) # <<>>
       /\ LET original_title == Strip(parts[1])
              true_content == clean_content_block(parts[2])
              sanitized_title == sanitize_title(original_title)
          IN  /\ title_map' = DictSet(title_map, original_title, sanitized_title)
              /\ zettels_data' = Append(zettels_data,
                     [original_title |-> original_title,
                      sanitized_title |-> sanitized_title,
                      content |-> true_content])
    /\ block_idx' = block_idx + 1
    /\ UNCHANGED <<pc, file_exists, input_content, raw_zettel_blocks,
                   processed_zettels, write_idx, files, dir_created, out,
                   exit_status, arg, res, res2>>

\* the loop of PASS 1 is over
BeginPassTwo ==
    /\ pc = "pass1"
    /\ block_idx > Len(raw_zettel_blocks)
    /\ out' = Append(out, Message("synchronizing", <<>>))
    /\ processed_zettels' = <<>>
    /\ pc' = "pass2"
    /\ UNCHANGED <<file_exists, input_content, raw_zettel_blocks, block_idx,
                   zettels_data, title_map, write_idx, files, dir_created,
                   exit_status, arg, res, res2>>

\* a single-pass slip: record k is rewritten against the titles known when
\* it was extracted, those of records 1..k
LinkTable_KnownSoFar(k) ==
    SelectSeq(title_map,
              LAMBDA e : \E h \in 1..k : zettels_data[h].original_title = e.original)

\* the entries of the title map the body of record k is rewritten against
LinkTable(k) == title_map

\* PASS 2, one record: every title of the map is replaced in its body
RewriteZettel ==
    /\ pc = "pass2"
    /\ Len(processed_zettels) < Len(zettels_data)
    /\ LET k == Len(processed_zettels) + 1
           zettel == zettels_data[k]
           updated_content == RewriteLinks(zettel.content, LinkTable(k))
       IN  processed_zettels' = Append(processed_zettels,
               [sanitized_title |-> zettel.sanitized_title,
                content |-> updated_content])
    /\ UNCHANGED <<pc, file_exists, input_content, raw_zettel_blocks,
                   block_idx, zettels_data, title_map, write_idx, files,
                   dir_created, out, exit_status, arg, res, res2>>

\* the loop of PASS 2 is over
BeginPassThree ==
    /\ pc = "pass2"
    /\ Len(processed_zettels) = Len(zettels_data)
    /\ out' = Append(out, Message("writing", <<>>))
    /\ write_idx' = 1
    /\ pc' = "pass3"
    /\ UNCHANGED <<file_exists, input_content, raw_zettel_blocks, block_idx,
                   zettels_data, title_map, processed_zettels, files,
                   dir_created, exit_status, arg, res, res2>>

\* PASS 3, one record: its body is escaped, framed and written
WriteZettel ==
    /\ pc = "pass3"
    /\ write_idx <= Len(processed_zettels)
    /\ LET zettel == processed_zettels[write_idx]
           filename == zettel.sanitized_title \o MdSuffix
       IN  /\ files' = WriteFile(files, filename, FormatContent(zettel.content))
           /\ out' = Append(out, Message("created", filename))
    /\ write_idx' = write_idx + 1
    /\ UNCHANGED <<pc, file_exists, input_content, raw_zettel_blocks,
                   block_idx, zettels_data, title_map, processed_zettels,
                   dir_created, exit_status, arg, res, res2>>

\* the loop of PASS 3 is over: the completion message, and main returns
Complete ==
    /\ pc = "pass3"
    /\ write_idx > Len(processed_zettels)
    /\ out' = Append(out, Message("complete", <<>>))
    /\ exit_status' = 0
    /\ pc' = "done"
    /\ UNCHANGED <<file_exists, input_content, raw_zettel_blocks, block_idx,
                   zettels_data, title_map, processed_zettels, write_idx,
                   files, dir_created, arg, res, res2>>

-----------------------------------------------------------------------------
(* Specification Spec: a run of the script on each input document made of  *)
(* a preamble and at most MaxBlocks title segments, or on a missing file.  *)

TitlePlain == <<" ", "a", "\n">>

TitleColon == <<" ", "a", ":", "\n">>

TitleQuoted == <<" ", "'", "a", "\n">>

TitleAngleQuoted == <<" ", "<", "'", "a", "\n">>

TitleBlank == <<" ", "\n">>

TitleBracket == <<" ", "<", "]", "]", "[", "[", "\n">>

BodyForward ==
    <<"\n", "S", "e", "e", " ", "[", "[", "a", ":", "]", "]", " ", "#", "t", "\n">>

BodyChain ==
    <<"[", "[", "<", "'", "a", "]", "]", " ", "[", "[", "'", "a", "]", "]">>

BodyMixed ==
    <<"t", "a", "g", "s", ":", ":", " ", "#", "w", "\n", Backtick, Backtick,
      Backtick, "\n", "#", "x", "#", "y", " ", "[", "[", "a", "]", "]", "\n",
      "-", "-", "-", "[", "[", "a", ":", "]", "]">>

BodyBracket ==
    <<"[", "[", "<", "]", "]", "[", "[", "<", "]", "]", "[", "[", "]", "]">>

\* the text of the title segments documents are made of: two without
\* content marker, two with an empty title, the others well-formed
Segments ==
    {TitleMarker \o t : t \in {TitlePlain, TitleBlank}}
    \cup {TitleMarker \o tb[1] \o ContentMarker \o tb[2] : tb \in {
            <<TitleBlank, BodyForward>>,
            <<TitleBlank, BodyChain>>,
            <<TitlePlain, BodyForward>>,
            <<TitlePlain, BodyMixed>>,
            <<TitlePlain, BodyChain>>,
            <<TitleColon, BodyForward>>,
            <<TitleColon, BodyMixed>>,
            <<TitleQuoted, BodyChain>>,
            <<TitleQuoted, BodyMixed>>,
            <<TitleAngleQuoted, BodyChain>>,
            <<TitleAngleQuoted, BodyForward>>,
            <<TitleBracket, BodyBracket>>}}

RECURSIVE DocsUpTo(_)
DocsUpTo(n) ==
    IF n = 0 THEN {<<"p", "\n">>}
    ELSE LET shorter == DocsUpTo(n - 1) IN
         shorter \cup {d \o sg : d \in shorter, sg \in Segments}

ScenarioInput ==
    <<"*", "*", "T", "i", "t", "l", "e", ":", "*", "*", " ", "M", "y", ":",
      " ", "N", "o", "t", "e", "/", "O", "n", "e", "\n", "*", "*", "C", "o",
      "n", "t", "e", "n", "t", ":", "*", "*", "\n", "S", "e", "e", " ", "[",
      "[", "M", "y", ":", " ", "N", "o", "t", "e", "/", "O", "n", "e", "]",
      "]", " ", "a", "n", "d", " ", "#", "t", "a", "g", "\n", "-", "-", "-",
      "\n", "i", "g", "n", "o", "r", "e", "d">>

Init ==
    /\ pc = "main"
    /\ \/ /\ file_exists = TRUE
          /\ input_content \in DocsUpTo(MaxBlocks) \cup {ScenarioInput}
       \/ /\ file_exists = FALSE
          /\ input_content = <<>>
    /\ raw_zettel_blocks = <<>>
    /\ block_idx = 0
    /\ zettels_data = <<>>
    /\ title_map = <<>>
    /\ processed_zettels = <<>>
    /\ write_idx = 0
    /\ files = {}
    /\ dir_created = FALSE
    /\ out = <<>>
    /\ exit_status = -1
    /\ arg = <<>>
    /\ res = <<>>
    /\ res2 = <<>>

Next ==
    \/ ReadInput
    \/ InputNotFound
    \/ NoZettelsFound
    \/ ZettelsFound
    \/ SkipMalformedBlock
    \/ SkipEmptyTitle
    \/ ExtractZettel
    \/ BeginPassTwo
    \/ RewriteZettel
    \/ BeginPassThree
    \/ WriteZettel
    \/ Complete

Spec == Init /\ [][Next]_vars

-----------------------------------------------------------------------------
(* Specification SpecSanitize: sanitize_title applied to every title over  *)
(* TitleAlphabet of length at most MaxTitleLen, then to its own result.    *)

TitleAlphabet == {" ", "\t", "'", ":", "/", "<", "a"}

RECURSIVE StringsUpTo(_, _)
StringsUpTo(alphabet, n) ==
    IF n = 0 THEN {<<>>}
    ELSE LET shorter == StringsUpTo(alphabet, n - 1) IN
         shorter \cup {Append(s, c) : s \in shorter, c \in alphabet}

PipeIdle ==
    /\ file_exists = FALSE
    /\ input_content = <<>>
    /\ raw_zettel_blocks = <<>>
    /\ block_idx = 0
    /\ zettels_data = <<>>
    /\ title_map = <<>>
    /\ processed_zettels = <<>>
    /\ write_idx = 0
    /\ files = {}
    /\ dir_created = FALSE
    /\ out = <<>>
    /\ exit_status = -1

InitSanitize ==
    /\ pc = "sanitize"
    /\ arg \in StringsUpTo(TitleAlphabet, MaxTitleLen)
    /\ res = <<>>
    /\ res2 = <<>>
    /\ PipeIdle

ApplySanitize ==
    /\ pc = "sanitize"
    /\ res' = sanitize_title(arg)
    /\ pc' = "resanitize"
    /\ UNCHANGED <<arg, res2, pipeVars>>

ReapplySanitize ==
    /\ pc = "resanitize"
    /\ res2' = sanitize_title(res)
    /\ pc' = "sanitized"
    /\ UNCHANGED <<arg, res, pipeVars>>

NextSanitize == ApplySanitize \/ ReapplySanitize

SpecSanitize == InitSanitize /\ [][NextSanitize]_vars

\* C1: sanitize_title is idempotent: sanitizing the sanitized title of any
\* string gives that sanitized title again.
C1_Idempotent == pc = "sanitized" => res2 = res

\* the set of characters of a string
Chars(s) == {s[k] : k \in 1..Len(s)}

\* C2: the sanitized title of any string has none of the characters of
\* IllegalChars (less-than, greater-than, double quote, backslash, bar,
\* question mark, star), no
\* forward slash, no two adjacent whitespace characters and no whitespace
\* at either end.
C2_SafeTitle ==
    pc \in {"resanitize", "sanitized"} =>
        /\ Chars(res) \cap (IllegalChars \cup {"/"}) = {}
        /\ \A k \in 1..(Len(res) - 1) :
               ~(res[k] \in Whitespace /\ res[k + 1] \in Whitespace)
        /\ res # <<>> => (res[1] \notin Whitespace /\ res[Len(res)] \notin Whitespace)

\* a title with an illegal character, a slash, a whitespace run and outer
\* whitespace has been sanitized to a non-empty title
C2_Witness ==
    /\ pc = "resanitize"
    /\ arg = <<"\t", "<", "/", " ">>
    /\ res = <<"o", "r">>

-----------------------------------------------------------------------------
(* Specification SpecEscape: the escaping step of PASS 3 applied to one    *)
(* body line: a prefix of LinePrefixes followed by every tail over         *)
(* LineAlphabet of length at most MaxLineLen.                              *)

LineAlphabet == {"#", "a", " ", "\t"}

LinePrefixes == {<<>>, TagsPrefix, <<" ">> \o TagsPrefix, <<"t", "a", "g", ":">>}

InitEscape ==
    /\ pc = "escape"
    /\ arg \in {pre \o tl : pre \in LinePrefixes,
                            tl \in StringsUpTo(LineAlphabet, MaxLineLen)}
    /\ res = <<>>
    /\ res2 = <<>>
    /\ PipeIdle

ApplyEscape ==
    /\ pc = "escape"
    /\ res' = escape_line(arg)
    /\ pc' = "escaped"
    /\ UNCHANGED <<arg, res2, pipeVars>>

NextEscape == ApplyEscape

SpecEscape == InitEscape /\ [][NextEscape]_vars

\* the line with one backslash put before every '#' whose next character
\* exists and is not whitespace, every other character kept
RECURSIVE BackslashEveryHash(_)
BackslashEveryHash(s) ==
    IF s = <<>> THEN <<>>
    ELSE IF Head(s) = "#" /\ Len(s) >= 2 /\ s[2] \notin Whitespace
         THEN <<"\\", "#">> \o BackslashEveryHash(Tail(s))
         ELSE <<Head(s)>> \o BackslashEveryHash(Tail(s))

\* C4: the escaping step leaves a line whose trimmed form starts with
\* tags:: unchanged, and on any other line puts exactly one backslash before
\* every '#' that is immediately followed by a non-whitespace character and
\* changes nothing else.
C4_EscapesEveryHash ==
    pc = "escaped" =>
        res = IF StartsWith(Strip(arg), TagsPrefix) THEN arg
              ELSE BackslashEveryHash(arg)

-----------------------------------------------------------------------------
(* Properties of a run (specification Spec).                               *)

Terminated == pc \in {"done", "exited"}

PastPassOne == pc \in {"pass2", "pass3", "done"}

PastPassTwo == pc \in {"pass3", "done"}

Kinds(kind) == SelectSeq(out, LAMBDA m : m.msg = kind)

Reported(kind) == Kinds(kind) # <<>>

\* the titles that are keys of the title map
Keys == {title_map[k].original : k \in 1..Len(title_map)}

Sanitized(T) == sanitize_title(T)

BracketFree(T) == Chars(T) \cap {"[", "]"} = {}

\* C3 as stated: whenever a raw body contains [[T]] for a key T of the title
\* map, the rewritten body contains [[sanitize_title(T)]] and no longer
\* contains [[T]].
C3_Original ==
    PastPassTwo =>
        \A k \in 1..Len(processed_zettels) : \A T \in Keys :
            Contains(zettels_data[k].content, Wikilink(T)) =>
                /\ Contains(processed_zettels[k].content, Wikilink(Sanitized(T)))
                /\ ~Contains(processed_zettels[k].content, Wikilink(T))

\* C3 amended: when no key of the title map contains a square bracket and a
\* raw body contains [[T]] for a key T, the rewritten body contains
\* [[sanitize_title(T)]] unless sanitize_title(T) is itself a key that
\* sanitizes to something else, and it no longer contains [[T]] unless T is
\* the sanitized title of some key (of T itself when T is already sanitized).
C3_Rewritten ==
    (PastPassTwo /\ \A K \in Keys : BracketFree(K)) =>
        \A k \in 1..Len(processed_zettels) : \A T \in Keys :
            Contains(zettels_data[k].content, Wikilink(T)) =>
                /\ (Sanitized(T) \in Keys => Sanitized(Sanitized(T)) = Sanitized(T))
                       => Contains(processed_zettels[k].content, Wikilink(Sanitized(T)))
                /\ (\A K \in Keys : Sanitized(K) # T)
                       => ~Contains(processed_zettels[k].content, Wikilink(T))

\* a body that held [[T]] for a key T that sanitization changes now holds
\* the sanitized link and not the original one
C3_Witness ==
    /\ PastPassTwo
    /\ \A K \in Keys : BracketFree(K)
    /\ \E k \in 1..Len(processed_zettels) : \E T \in Keys :
           /\ Contains(zettels_data[k].content, Wikilink(T))
           /\ \A K \in Keys : Sanitized(K) # T
           /\ Contains(processed_zettels[k].content, Wikilink(Sanitized(T)))
           /\ ~Contains(processed_zettels[k].content, Wikilink(T))

ScenarioClaimedTitle ==
    <<"M", "y", " ", "-", "N", "o", "t", "e", " ", "o", "r", " ", "O", "n", "e">>

ScenarioClaimedContent ==
    <<"-", " ", "\n", " ", " ", "S", "e", "e", " ", "[", "[", "M", "y", " ",
      "-", "N", "o", "t", "e", " ", "o", "r", " ", "O", "n", "e", "]", "]",
      " ", "a", "n", "d", " ", "\\", "#", "t", "a", "g">>

ScenarioTitle ==
    <<"M", "y", " ", "-", " ", "N", "o", "t", "e", " ", "o", "r", " ", "O",
      "n", "e">>

ScenarioContent ==
    <<"-", " ", "\n", " ", " ", "S", "e", "e", " ", "[", "[", "M", "y", " ",
      "-", " ", "N", "o", "t", "e", " ", "o", "r", " ", "O", "n", "e", "]",
      "]", " ", "a", "n", "d", " ", "\\", "#", "t", "a", "g">>

ScenarioResult(title, content) ==
    /\ Len(zettels_data) = 1
    /\ zettels_data[1].sanitized_title = title
    /\ files = {[name |-> title \o MdSuffix, content |-> content]}
    /\ \A f \in files : ~Contains(f.content, <<"i", "g", "n", "o", "r", "e", "d">>)

\* C5 as stated: the scenario input gives one record with sanitized title
\* My -Note or One, and the one file My -Note or One.md holding the bullet
\* line and the indented line See [[My -Note or One]] and \#tag, without
\* the text after the separator.
C5_Original ==
    (Terminated /\ input_content = ScenarioInput) =>
        /\ pc = "done"
        /\ ScenarioResult(ScenarioClaimedTitle, ScenarioClaimedContent)

\* C5 amended: the scenario input gives one record with sanitized title
\* My - Note or One (the colon becomes space-hyphen and the space after it
\* stays), and the one file My - Note or One.md holding the bullet line and
\* the indented line See [[My - Note or One]] and \#tag, without the text
\* after the separator.
C5_Scenario ==
    (Terminated /\ input_content = ScenarioInput) =>
        /\ pc = "done"
        /\ ScenarioResult(ScenarioTitle, ScenarioContent)

\* the run on the scenario input has finished and written its file
C5_Witness ==
    /\ pc = "done"
    /\ input_content = ScenarioInput
    /\ Cardinality(files) = 1

\* a title segment with a content marker and a non-empty trimmed title
WellFormed(block) ==
    /\ Contains(block, ContentMarker)
    /\ Strip(SubSeq(block, 1, Find(block, ContentMarker, 1) - 1)) # <<>>

\* the trimmed title of a well-formed segment
TitleOf(block) == Strip(SubSeq(block, 1, Find(block, ContentMarker, 1) - 1))

\* the well-formed title segments of the input document, in document order
WellFormedSegments == SelectSeq(TitleSegments(input_content), WellFormed)

CreatedNames == [k \in 1..Len(Kinds("created")) |-> Kinds("created")[k].text]

\* C6: the records are exactly the segments with a content marker and a
\* non-empty trimmed title, in document order; a skipped segment never ends
\* the run, and every record is written once the run is over.
C6_ExtractsWellFormed ==
    /\ PastPassOne =>
          \A segments \in {WellFormedSegments} :
              /\ Len(zettels_data) = Len(segments)
              /\ \A k \in 1..Len(zettels_data) :
                     zettels_data[k].original_title = TitleOf(segments[k])
    /\ (Terminated /\ file_exists /\ Contains(input_content, TitleMarker)) =>
          /\ pc = "done"
          /\ exit_status = 0
          /\ CreatedNames = [k \in 1..Len(zettels_data) |->
                                zettels_data[k].sanitized_title \o MdSuffix]
          /\ \A k \in 1..Len(zettels_data) : \E f \in files :
                 f.name = zettels_data[k].sanitized_title \o MdSuffix

\* a finished run in which a skipped segment comes before a well-formed
\* segment whose file was written
C6_Witness ==
    /\ pc = "done"
    /\ files # {}
    /\ LET segs == TitleSegments(input_content) IN
       \E i, j \in 1..Len(segs) :
           /\ i < j
           /\ ~WellFormed(segs[i])
           /\ WellFormed(segs[j])
           /\ \E f \in files :
                  f.name = sanitize_title(TitleOf(segs[j])) \o MdSuffix

Errors == Kinds("error_not_found") \o Kinds("error_no_zettels")

\* C7 as stated: a run that extracts zero note records reports an error,
\* ends with a non-zero status and writes no file; status zero and the
\* completion message come only with a success.
C7_Original ==
    (Terminated /\ file_exists) =>
        /\ zettels_data = <<>> =>
              (exit_status # 0 /\ Errors # <<>> /\ files = {})
        /\ (exit_status = 0 /\ Reported("complete")) => zettels_data # <<>>

\* C7 amended: a run on a document without any title marker reports the
\* no-Zettels error, ends with status 1 and writes no file; a run ends with
\* status zero exactly when it prints the completion message, which needs a
\* readable input with at least one title marker and no reported error (it
\* also happens when every segment is skipped and nothing is written).
C7_NoTitleIsFatal ==
    /\ files # {} => Contains(input_content, TitleMarker)
    /\ Terminated =>
          /\ (file_exists /\ ~Contains(input_content, TitleMarker)) =>
                 /\ exit_status = 1
                 /\ Reported("error_no_zettels")
                 /\ ~Reported("complete")
                 /\ files = {}
          /\ exit_status = 0 <=> Reported("complete")
          /\ exit_status = 0 =>
                 /\ file_exists
                 /\ Contains(input_content, TitleMarker)
                 /\ Errors = <<>>
          /\ exit_status \in {0, 1}

\* the run on a document without a title marker has ended: directory made,
\* error reported, nothing written
C7_Witness ==
    /\ pc = "exited"
    /\ file_exists
    /\ ~Contains(input_content, TitleMarker)
    /\ dir_created
    /\ files = {}

\* C8: every segment skipped by the extraction, for a missing content marker
\* or for an empty trimmed title, has produced a warning message.
C8_EverySkipWarns ==
    PastPassOne =>
        Len(Kinds("warning_malformed"))
            = Len(raw_zettel_blocks) - Len(zettels_data)

\* the distinct sanitized titles of the surviving records
SanitizedTitles == {zettels_data[k].sanitized_title : k \in 1..Len(zettels_data)}

\* the last record, in processing order, with that sanitized title
LastWith(st) ==
    CHOOSE k \in 1..Len(processed_zettels) :
        /\ processed_zettels[k].sanitized_title = st
        /\ \A j \in (k + 1)..Len(processed_zettels) :
               processed_zettels[j].sanitized_title # st

MessageKinds ==
    {"checking", "found", "warning_malformed", "synchronizing", "writing",
     "created", "complete", "error_not_found", "error_no_zettels"}

\* C9: after a run each file name sanitized_title.md holds the formatted
\* body of the last record with that sanitized title, there are as many
\* files as distinct sanitized titles, the files were written in record
\* order, and nothing but the usual messages is reported.
C9_LastWriterWins ==
    /\ pc = "done" =>
          /\ files = {[name |-> st \o MdSuffix,
                       content |-> FormatContent(processed_zettels[LastWith(st)].content)]
                      : st \in SanitizedTitles}
          /\ Cardinality(files) = Cardinality(SanitizedTitles)
          /\ CreatedNames = [k \in 1..Len(processed_zettels) |->
                                processed_zettels[k].sanitized_title \o MdSuffix]
    /\ \A k \in 1..Len(out) : out[k].msg \in MessageKinds

\* a finished run in which two records with one sanitized title and
\* different formatted bodies left a single file
C9_Witness ==
    /\ pc = "done"
    /\ \E i, j \in 1..Len(processed_zettels) :
           /\ i < j
           /\ processed_zettels[i].sanitized_title = processed_zettels[j].sanitized_title
           /\ FormatContent(processed_zettels[i].content)
                  # FormatContent(processed_zettels[j].content)
           /\ Cardinality(files) < Len(processed_zettels)

\* the first occurrences of the elements of a sequence, in order
RECURSIVE Distinct(_)
Distinct(seq) ==
    IF seq = <<>> THEN <<>>
    ELSE <<Head(seq)>> \o Distinct(SelectSeq(Tail(seq), LAMBDA x : x # Head(seq)))

TitlesOf(segments) == [k \in 1..Len(segments) |-> TitleOf(segments[k])]

EntriesOf(titles) ==
    [k \in 1..Len(titles) |->
        [original |-> titles[k], sanitized |-> sanitize_title(titles[k])]]

\* the title map of the whole document: one entry per distinct trimmed
\* title of a well-formed segment, in order of first appearance
WholeTitleMap == EntriesOf(Distinct(TitlesOf(WellFormedSegments)))

\* C10: from the first rewritten body on the title map is the map of the
\* whole document and stays so; no file exists before every body has been
\* rewritten; so every body is rewritten against the titles of all
\* surviving records, those of later records included.
C10_MapCompleteBeforeRewrite ==
    /\ processed_zettels # <<>> => PastPassOne
    /\ files # {} =>
          (PastPassTwo /\ Len(processed_zettels) = Len(zettels_data))
    /\ PastPassOne =>
          \A whole \in {WholeTitleMap} :
              /\ title_map = whole
              /\ \A k \in 1..Len(processed_zettels) :
                     processed_zettels[k].content
                         = RewriteLinks(zettels_data[k].content, whole)

\* a body that refers to the original title of a later record, a title that
\* sanitization changes, now holds the sanitized link
C10_Witness ==
    /\ PastPassTwo
    /\ \E i, j \in 1..Len(zettels_data) :
           LET T == zettels_data[j].original_title IN
           /\ i < j
           /\ \A h \in 1..i : zettels_data[h].original_title # T
           /\ zettels_data[j].sanitized_title # T
           /\ Contains(zettels_data[i].content, Wikilink(T))
           /\ Contains(processed_zettels[i].content,
                       Wikilink(zettels_data[j].sanitized_title))
           /\ ~Contains(processed_zettels[i].content, Wikilink(T))

====
